---- MODULE Spec2Model ----
(***************************************************************************)
(* A model of movies/views.py: the install-tracking API (track_install,    *)
(* track_uninstall, reset_install_data, custom_admin_dashboard), the       *)
(* download redirect (download_movie), the pagination of the listing       *)
(* handlers (home, category_detail) and the ordering of playlist_detail.   *)
(***************************************************************************)
EXTENDS Integers, Sequences, FiniteSets, TLC

VARIABLES
    tracker,        \* the InstallTracker table: a sequence of rows, in insertion order
    downloadLog,    \* the DownloadLog table: a sequence of rows, in insertion order
    now,            \* the clock timezone.now() reads; one tick per request
    call,           \* the last request: its handler and its body
    resp,           \* the response of the last request
    hist,           \* history: per device_id, the kinds of the tracking calls that reached the table
    atOne,          \* history: per device_id, the track_uninstall calls that found install_count = 1
    dlCalls,        \* history: the number of download_movie calls made
    dlFound,        \* history: the number of download_movie calls whose movie exists
    pc,             \* interleaved handlers: the position of each request slot
    req,            \* interleaved handlers: the request each slot is serving
    loc,            \* interleaved handlers: the handler's local tracker object and flags
    pg,             \* listing handlers: the request (item count, page parameter) and its page
    pl              \* playlist_detail: the fetched movies and the rendered list

vars == << tracker, downloadLog, now, call, resp, hist, atOne, dlCalls, dlFound,
           pc, req, loc, pg, pl >>

----------------------------------------------------------------------------
(* Bounds of the model *)

\* the requests served in a run of all the handlers
MaxCalls == 3

\* the requests served in a run of track_install and track_uninstall alone
MaxTrackCalls == 5

\* the requests begun in a run of interleaved tracking handlers
MaxRaceCalls == 3

\* the items a listing handler has to page
MaxItems == 50

\* the length of the text of a ?page= parameter
MaxParamLen == 3

\* the movies of a playlist
MaxMovies == 6

----------------------------------------------------------------------------
(* Requests *)

\* data.get(key) of a JSON object without that key is None
None == "<None>"

DeviceIds == {"dev1", "dev2"}

\* the substrings detect_device_name looks for; a User-Agent is modelled by the
\* set of those substrings its lower-cased text contains
UserAgents == { {}, {"mac", "iphone"} }

\* request bodies: not JSON at all, JSON that is no object, or a JSON object
Bodies ==
    { [kind |-> "malformed"], [kind |-> "nonobject"] }
    \cup [ kind : {"object"},
           device_id : DeviceIds \cup {None, ""},
           device_name : {None, "Pixel"} ]

\* Python truthiness of what data.get returns (None and "" are falsy)
Falsy(v) == v \in {None, ""}

detect_device_name(ua) ==
    IF "windows" \in ua THEN "Windows PC/Laptop"
    ELSE IF "android" \in ua THEN "Android"
    ELSE IF "iphone" \in ua \/ "ipad" \in ua \/ "ios" \in ua THEN "iOS"
    ELSE IF "mac" \in ua THEN "Mac"
    ELSE "Unknown"

\* line 259: data.get("device_name") or detect_device_name(User-Agent)
ResolveDeviceName(body, ua) ==
    IF Falsy(body.device_name) THEN detect_device_name(ua) ELSE body.device_name

----------------------------------------------------------------------------
(* The InstallTracker table *)

\* the indices of the rows with this device_id
RowsOf(table, d) == { i \in 1..Len(table) : table[i].device_id = d }

\* InstallTracker.objects.filter(install_count=1).count()
ActiveCount(table) == Cardinality({ i \in 1..Len(table) : table[i].install_count = 1 })

\* a faulty variant: get_or_create inserts a row on every call
NeedsCreate_Always(table, d) == TRUE

\* get_or_create inserts a row only when no row has this device_id
NeedsCreate(table, d) == RowsOf(table, d) = {}

\* the row get_or_create inserts, before the handler fills it in; ic0 is the
\* model field's default install_count
NewRow(d, ic0) ==
    [ device_id |-> d, install_count |-> ic0, deleted_count |-> 0,
      device_name |-> "", device_info |-> {}, last_action |-> "", updated_at |-> 0 ]

\* InstallTracker.objects.get_or_create(device_id=d): the table afterwards, the
\* index of the row and whether it was created
get_or_create(table, d, ic0) ==
    IF NeedsCreate(table, d)
    THEN [ table |-> Append(table, NewRow(d, ic0)), idx |-> Len(table) + 1, created |-> TRUE ]
    ELSE [ table |-> table, idx |-> CHOOSE i \in RowsOf(table, d) : TRUE, created |-> FALSE ]

\* a faulty variant: a re-install starts the row afresh, deleted_count included
InstallUpdate_ResetsDeleted(row, created, device_name, ua, t) ==
    IF created \/ row.install_count = 0
    THEN [ row EXCEPT !.install_count = 1, !.deleted_count = 0, !.device_info = ua,
                      !.device_name = device_name,
                      !.last_action = IF created THEN "install" ELSE "reinstall",
                      !.updated_at = t ]
    ELSE [ row EXCEPT !.last_action = "install (re-open)", !.device_name = device_name,
                      !.updated_at = t ]

\* a faulty variant: a repeated install also rewrites device_info
InstallUpdate_ReopenRewritesInfo(row, created, device_name, ua, t) ==
    IF created
    THEN [ row EXCEPT !.install_count = 1, !.deleted_count = 0, !.device_info = ua,
                      !.device_name = device_name, !.last_action = "install",
                      !.updated_at = t ]
    ELSE IF row.install_count = 0
    THEN [ row EXCEPT !.install_count = 1, !.device_name = device_name,
                      !.last_action = "reinstall", !.updated_at = t ]
    ELSE [ row EXCEPT !.last_action = "install (re-open)", !.device_name = device_name,
                      !.device_info = ua, !.updated_at = t ]

\* lines 265-283: what track_install assigns to its tracker object
InstallUpdate(row, created, device_name, ua, t) ==
    IF created
    THEN [ row EXCEPT !.install_count = 1, !.deleted_count = 0, !.device_info = ua,
                      !.device_name = device_name, !.last_action = "install",
                      !.updated_at = t ]
    ELSE IF row.install_count = 0
    THEN [ row EXCEPT !.install_count = 1, !.device_name = device_name,
                      !.last_action = "reinstall", !.updated_at = t ]
    ELSE [ row EXCEPT !.last_action = "install (re-open)", !.device_name = device_name,
                      !.updated_at = t ]

InstallMessage(row, created) ==
    IF created THEN "New install tracked"
    ELSE IF row.install_count = 0 THEN "Re-install tracked (count restored)"
    ELSE "Already tracked (count maintained)"

\* a faulty variant: track_uninstall counts every call for a tracked device
UninstallSaves_Always(row) == TRUE

\* lines 313-318: whether track_uninstall saves, and what it assigns
UninstallSaves(row) == row.install_count = 1

UninstallUpdate(row, t) ==
    [ row EXCEPT !.install_count = 0, !.deleted_count = @ + 1,
                 !.last_action = "uninstall", !.updated_at = t ]

\* tracker.save(): the whole row is written back at its place
Save(table, idx, row) == [ table EXCEPT ![idx] = row ]

----------------------------------------------------------------------------
(* track_install and track_uninstall, run to completion *)

Request(handler, body) == [ handler |-> handler, body |-> body ]

NoBody == [ kind |-> "none" ]

Response(handler, code, body) == [ handler |-> handler, code |-> code, body |-> body ]

\* whether the request gets past json.loads, data.get and the device_id test
ReachesTable(body) == body.kind = "object" /\ ~Falsy(body.device_id)

\* lines 256-297; t is the time timezone.now() returns
track_install(table, body, ua, t) ==
    IF body.kind = "malformed"
    THEN [ table |-> table,
           resp |-> Response("track_install", 400,
                             [ status |-> "error", message |-> "Invalid JSON" ]) ]
    ELSE IF body.kind = "nonobject"
    THEN [ table |-> table,
           resp |-> Response("track_install", 500,
                             [ status |-> "error", message |-> "no attribute 'get'" ]) ]
    ELSE IF Falsy(body.device_id)
    THEN [ table |-> table,
           resp |-> Response("track_install", 400,
                             [ status |-> "error", message |-> "Device ID missing" ]) ]
    ELSE LET device_name == ResolveDeviceName(body, ua)
             got == get_or_create(table, body.device_id, 0)
             row == got.table[got.idx]
             saved == Save(got.table, got.idx,
                           InstallUpdate(row, got.created, device_name, ua, t))
         IN  [ table |-> saved,
               resp |-> Response("track_install", 200,
                                 [ status |-> "success",
                                   message |-> InstallMessage(row, got.created),
                                   device |-> device_name,
                                   total_active_installs |-> ActiveCount(saved) ]) ]

\* lines 304-329
track_uninstall(table, body, t) ==
    IF body.kind = "malformed"
    THEN [ table |-> table,
           resp |-> Response("track_uninstall", 400,
                             [ success |-> FALSE, message |-> "Invalid JSON" ]) ]
    ELSE IF body.kind = "nonobject"
    THEN [ table |-> table,
           resp |-> Response("track_uninstall", 500,
                             [ success |-> FALSE, message |-> "Server error" ]) ]
    ELSE IF Falsy(body.device_id)
    THEN [ table |-> table,
           resp |-> Response("track_uninstall", 400,
                             [ success |-> FALSE, message |-> "Device ID is required" ]) ]
    ELSE IF RowsOf(table, body.device_id) = {}
    THEN [ table |-> table,
           resp |-> Response("track_uninstall", 200,
                             [ success |-> TRUE,
                               message |-> "Tracker not found, but uninstall acknowledged" ]) ]
    ELSE LET idx == CHOOSE i \in RowsOf(table, body.device_id) : TRUE
             row == table[idx]
             saved == IF UninstallSaves(row)
                      THEN Save(table, idx, UninstallUpdate(row, t))
                      ELSE table
         IN  [ table |-> saved,
               resp |-> Response("track_uninstall", 200,
                                 [ success |-> TRUE, message |-> "Uninstall tracked",
                                   total_active_installs |-> ActiveCount(saved) ]) ]

HasRow(table, d) == RowsOf(table, d) # {}

\* the device's row, when the table has one
RowOf(table, d) == table[CHOOSE i \in RowsOf(table, d) : TRUE]

TrackInstall(body, ua) ==
    /\ now' = now + 1
    /\ call' = Request("track_install", body)
    /\ LET out == track_install(tracker, body, ua, now + 1)
       IN  /\ tracker' = out.table
           /\ resp' = out.resp
    /\ hist' = IF ReachesTable(body)
               THEN [ hist EXCEPT ![body.device_id] = Append(@, "install") ]
               ELSE hist
    /\ UNCHANGED << downloadLog, atOne, dlCalls, dlFound, pc, req, loc, pg, pl >>

TrackUninstall(body) ==
    /\ now' = now + 1
    /\ call' = Request("track_uninstall", body)
    /\ LET out == track_uninstall(tracker, body, now + 1)
       IN  /\ tracker' = out.table
           /\ resp' = out.resp
    /\ hist' = IF ReachesTable(body)
               THEN [ hist EXCEPT ![body.device_id] = Append(@, "uninstall") ]
               ELSE hist
    /\ atOne' = IF /\ ReachesTable(body)
                   /\ HasRow(tracker, body.device_id)
                   /\ RowOf(tracker, body.device_id).install_count = 1
                THEN [ atOne EXCEPT ![body.device_id] = @ + 1 ]
                ELSE atOne
    /\ UNCHANGED << downloadLog, dlCalls, dlFound, pc, req, loc, pg, pl >>

----------------------------------------------------------------------------
(* download_movie, the dashboard and the reset *)

\* the Movie table: no handler of views.py writes it
Movie ==
    (1 :> [ title |-> "1. Alpha", download_link |-> "https://cdn.example/alpha" ])
    @@ (2 :> [ title |-> "Beta S1 E2", download_link |-> "https://cdn.example/beta" ])

\* the movie ids a request may carry: those of the table and one of no movie
MovieIds == DOMAIN Movie \cup {3}

\* X-Forwarded-For as the list its commas separate; << >> is an absent header
ForwardedFor == { << >>, << "10.0.0.1", "10.0.0.2" >> }

RemoteAddr == "192.0.2.7"

\* request.user: anonymous, or an authenticated staff user
Anonymous == [ is_authenticated |-> FALSE, is_staff |-> FALSE, email |-> None, username |-> None ]

Users ==
    { Anonymous,
      [ is_authenticated |-> TRUE, is_staff |-> TRUE,
        email |-> "root@example.org", username |-> "root" ] }

\* lines 208-213
get_client_ip(xff) == IF xff # << >> THEN xff[1] ELSE RemoteAddr

\* lines 221-233: the row DownloadLog.objects.create inserts
NewDownloadLog(movie_id, xff, ua, user, t) ==
    [ movie_title |-> Movie[movie_id].title,
      ip_address |-> get_client_ip(xff),
      user_agent |-> ua,
      user_email |-> IF user.is_authenticated THEN user.email ELSE None,
      username |-> IF user.is_authenticated THEN user.username ELSE None,
      download_time |-> t ]

\* line 220: get_object_or_404(Movie, id=movie_id)
MovieExists(movie_id) == movie_id \in DOMAIN Movie

\* a faulty variant: only the downloads of signed-in users are logged
download_movie_AuthOnly(log, movie_id, xff, ua, user, t) ==
    IF ~MovieExists(movie_id)
    THEN [ log |-> log, resp |-> Response("download_movie", 404, [ location |-> None ]) ]
    ELSE [ log |-> IF user.is_authenticated
                   THEN Append(log, NewDownloadLog(movie_id, xff, ua, user, t))
                   ELSE log,
           resp |-> Response("download_movie", 302,
                             [ location |-> Movie[movie_id].download_link ]) ]

\* lines 216-234
download_movie(log, movie_id, xff, ua, user, t) ==
    IF ~MovieExists(movie_id)
    THEN [ log |-> log, resp |-> Response("download_movie", 404, [ location |-> None ]) ]
    ELSE [ log |-> Append(log, NewDownloadLog(movie_id, xff, ua, user, t)),
           resp |-> Response("download_movie", 302,
                             [ location |-> Movie[movie_id].download_link ]) ]

DownloadMovie(movie_id, xff, ua, user) ==
    /\ now' = now + 1
    /\ call' = Request("download_movie", [ kind |-> "path", movie_id |-> movie_id ])
    /\ LET out == download_movie(downloadLog, movie_id, xff, ua, user, now + 1)
       IN  /\ downloadLog' = out.log
           /\ resp' = out.resp
    /\ dlCalls' = dlCalls + 1
    /\ dlFound' = IF MovieExists(movie_id) THEN dlFound + 1 ELSE dlFound
    /\ UNCHANGED << tracker, hist, atOne, pc, req, loc, pg, pl >>

\* @staff_member_required: anyone else is redirected to the login page
StaffOnly(user) == user.is_authenticated /\ user.is_staff

LoginRedirect(handler) == Response(handler, 302, [ location |-> "/admin/login/" ])

\* lines 332-353: the counts the dashboard renders
CustomAdminDashboard(user) ==
    /\ now' = now + 1
    /\ call' = Request("custom_admin_dashboard", NoBody)
    /\ resp' = IF StaffOnly(user)
               THEN Response("custom_admin_dashboard", 200,
                             [ total_movies |-> Cardinality(DOMAIN Movie),
                               total_downloads |-> Len(downloadLog),
                               total_installs |-> ActiveCount(tracker) ])
               ELSE LoginRedirect("custom_admin_dashboard")
    /\ UNCHANGED << tracker, downloadLog, hist, atOne, dlCalls, dlFound,
                    pc, req, loc, pg, pl >>

\* lines 356-360
ResetInstallData(user) ==
    /\ now' = now + 1
    /\ call' = Request("reset_install_data", NoBody)
    /\ tracker' = IF StaffOnly(user) THEN << >> ELSE tracker
    /\ resp' = IF StaffOnly(user)
               THEN Response("reset_install_data", 200,
                             [ status |-> "success",
                               message |-> "All install data has been reset." ])
               ELSE LoginRedirect("reset_install_data")
    /\ UNCHANGED << downloadLog, hist, atOne, dlCalls, dlFound, pc, req, loc, pg, pl >>

----------------------------------------------------------------------------
(* The handlers, one request at a time *)

NoResponse == Response("none", 0, [ status |-> "none" ])

Init ==
    /\ tracker = << >>
    /\ downloadLog = << >>
    /\ now = 0
    /\ call = Request("none", NoBody)
    /\ resp = NoResponse
    /\ hist = [ d \in DeviceIds |-> << >> ]
    /\ atOne = [ d \in DeviceIds |-> 0 ]
    /\ dlCalls = 0
    /\ dlFound = 0
    /\ pc = << >>
    /\ req = << >>
    /\ loc = << >>
    /\ pg = << >>
    /\ pl = << >>

\* the clock stops a run after `limit` requests
Within(limit) == now < limit

Next ==
    \/ \E body \in Bodies, ua \in UserAgents : Within(MaxCalls) /\ TrackInstall(body, ua)
    \/ \E body \in Bodies : Within(MaxCalls) /\ TrackUninstall(body)
    \/ \E m \in MovieIds, xff \in ForwardedFor, ua \in UserAgents, u \in Users :
          Within(MaxCalls) /\ DownloadMovie(m, xff, ua, u)
    \/ \E u \in Users : Within(MaxCalls) /\ CustomAdminDashboard(u)
    \/ \E u \in Users : Within(MaxCalls) /\ ResetInstallData(u)

Spec == Init /\ [][Next]_vars

\* track_install and track_uninstall only
NextTrack ==
    \/ \E body \in Bodies, ua \in UserAgents : Within(MaxTrackCalls) /\ TrackInstall(body, ua)
    \/ \E body \in Bodies : Within(MaxTrackCalls) /\ TrackUninstall(body)

SpecTrack == Init /\ [][NextTrack]_vars

----------------------------------------------------------------------------
(* track_install and track_uninstall, interleaved: each handler reads the row
   (get_or_create, get), later saves its tracker object, later counts and
   answers; the requests of two workers take these steps in any order *)

Slots == {"w1", "w2"}

\* the requests the workers serve: one that fails to parse, and well-formed ones
RaceBodies ==
    { [kind |-> "malformed"] }
    \cup [ kind : {"object"}, device_id : DeviceIds, device_name : {None, "Pixel"} ]

\* the User-Agent of the workers' requests
RaceAgents == { {"mac", "iphone"} }

\* the install_count a freshly created row has until the handler saves it: the
\* field's default, which views.py does not show
DefaultInstallCounts == {0, 1}

NoLocal == [ idx |-> 0, created |-> FALSE, row |-> NewRow("", 0) ]

\* a faulty variant: save() writes only the fields the handler changed
ChangedFieldsWrite(current, old, new) ==
    [ f \in DOMAIN new |-> IF new[f] # old[f] THEN new[f] ELSE current[f] ]

\* tracker.save() writes every field of the handler's object over the row,
\* whatever the row holds by then
WholeRowWrite(current, old, new) == new

\* lines 257-264: json.loads, the device_id test and get_or_create
InstallRead(s, body, ua) ==
    /\ pc[s] = "idle"
    /\ now' = now + 1
    /\ call' = Request("track_install", body)
    /\ IF ~ReachesTable(body)
       THEN /\ resp' = track_install(tracker, body, ua, now + 1).resp
            /\ UNCHANGED << tracker, pc, req, loc, hist >>
       ELSE \E ic0 \in DefaultInstallCounts :
               LET got == get_or_create(tracker, body.device_id, ic0)
               IN  /\ tracker' = got.table
                   /\ loc' = [ loc EXCEPT ![s] = [ idx |-> got.idx, created |-> got.created,
                                                   row |-> got.table[got.idx] ] ]
                   /\ req' = [ req EXCEPT ![s] = [ handler |-> "track_install",
                                                   body |-> body, ua |-> ua ] ]
                   /\ pc' = [ pc EXCEPT ![s] = "got" ]
                   /\ hist' = [ hist EXCEPT ![body.device_id] = Append(@, "install") ]
                   /\ UNCHANGED resp
    /\ UNCHANGED << downloadLog, atOne, dlCalls, dlFound, pg, pl >>

\* lines 265-284: the branches, updated_at and save()
InstallSave(s) ==
    /\ pc[s] = "got"
    /\ req[s].handler = "track_install"
    /\ LET new == InstallUpdate(loc[s].row, loc[s].created,
                                ResolveDeviceName(req[s].body, req[s].ua), req[s].ua, now)
       IN  tracker' = Save(tracker, loc[s].idx,
                           WholeRowWrite(tracker[loc[s].idx], loc[s].row, new))
    /\ pc' = [ pc EXCEPT ![s] = "saved" ]
    /\ UNCHANGED << downloadLog, now, call, resp, hist, atOne, dlCalls, dlFound,
                    req, loc, pg, pl >>

\* lines 285-292: the count and the response
InstallRespond(s) ==
    /\ pc[s] = "saved"
    /\ req[s].handler = "track_install"
    /\ resp' = Response("track_install", 200,
                        [ status |-> "success",
                          message |-> InstallMessage(loc[s].row, loc[s].created),
                          device |-> ResolveDeviceName(req[s].body, req[s].ua),
                          total_active_installs |-> ActiveCount(tracker) ])
    /\ pc' = [ pc EXCEPT ![s] = "idle" ]
    /\ loc' = [ loc EXCEPT ![s] = NoLocal ]
    /\ UNCHANGED << tracker, downloadLog, now, call, hist, atOne, dlCalls, dlFound,
                    req, pg, pl >>

\* lines 305-312 and 323-324: json.loads, the device_id test and get()
UninstallRead(s, body) ==
    /\ pc[s] = "idle"
    /\ now' = now + 1
    /\ call' = Request("track_uninstall", body)
    /\ IF ~ReachesTable(body) \/ ~HasRow(tracker, body.device_id)
       THEN /\ resp' = track_uninstall(tracker, body, now + 1).resp
            /\ UNCHANGED << pc, req, loc >>
       ELSE LET i == CHOOSE k \in RowsOf(tracker, body.device_id) : TRUE
            IN  /\ loc' = [ loc EXCEPT ![s] = [ idx |-> i, created |-> FALSE,
                                                row |-> tracker[i] ] ]
                /\ req' = [ req EXCEPT ![s] = [ handler |-> "track_uninstall",
                                                body |-> body, ua |-> {} ] ]
                /\ pc' = [ pc EXCEPT ![s] = "got" ]
                /\ UNCHANGED resp
    /\ hist' = IF ReachesTable(body)
               THEN [ hist EXCEPT ![body.device_id] = Append(@, "uninstall") ]
               ELSE hist
    /\ UNCHANGED << tracker, downloadLog, atOne, dlCalls, dlFound, pg, pl >>

\* lines 313-318: the test of the object read, and save()
UninstallSave(s) ==
    /\ pc[s] = "got"
    /\ req[s].handler = "track_uninstall"
    /\ IF UninstallSaves(loc[s].row)
       THEN /\ tracker' = Save(tracker, loc[s].idx,
                               WholeRowWrite(tracker[loc[s].idx], loc[s].row,
                                             UninstallUpdate(loc[s].row, now)))
            /\ atOne' = [ atOne EXCEPT ![req[s].body.device_id] = @ + 1 ]
       ELSE UNCHANGED << tracker, atOne >>
    /\ pc' = [ pc EXCEPT ![s] = "saved" ]
    /\ UNCHANGED << downloadLog, now, call, resp, hist, dlCalls, dlFound, req, loc, pg, pl >>

\* lines 320-322: the count and the response
UninstallRespond(s) ==
    /\ pc[s] = "saved"
    /\ req[s].handler = "track_uninstall"
    /\ resp' = Response("track_uninstall", 200,
                        [ success |-> TRUE, message |-> "Uninstall tracked",
                          total_active_installs |-> ActiveCount(tracker) ])
    /\ pc' = [ pc EXCEPT ![s] = "idle" ]
    /\ loc' = [ loc EXCEPT ![s] = NoLocal ]
    /\ UNCHANGED << tracker, downloadLog, now, call, hist, atOne, dlCalls, dlFound,
                    req, pg, pl >>

NoRequest == [ handler |-> "none", body |-> NoBody, ua |-> {} ]

InitRace ==
    /\ tracker = << >>
    /\ downloadLog = << >>
    /\ now = 0
    /\ call = Request("none", NoBody)
    /\ resp = NoResponse
    /\ hist = [ d \in DeviceIds |-> << >> ]
    /\ atOne = [ d \in DeviceIds |-> 0 ]
    /\ dlCalls = 0
    /\ dlFound = 0
    /\ pc = [ s \in Slots |-> "idle" ]
    /\ req = [ s \in Slots |-> NoRequest ]
    /\ loc = [ s \in Slots |-> NoLocal ]
    /\ pg = << >>
    /\ pl = << >>

NextRace ==
    \/ \E s \in Slots, body \in RaceBodies, ua \in RaceAgents :
          Within(MaxRaceCalls) /\ InstallRead(s, body, ua)
    \/ \E s \in Slots : InstallSave(s)
    \/ \E s \in Slots : InstallRespond(s)
    \/ \E s \in Slots, body \in RaceBodies : Within(MaxRaceCalls) /\ UninstallRead(s, body)
    \/ \E s \in Slots : UninstallSave(s)
    \/ \E s \in Slots : UninstallRespond(s)

SpecRace == InitRace /\ [][NextRace]_vars

----------------------------------------------------------------------------
(* home and category_detail: the paging of the sorted list *)

\* Paginator(combined_list, 24), Paginator(items, 24)
PerPage == 24

\* the sorted list the handler pages (what the query filter and the sort by
\* created_at leave): n items, named by their place in the order of creation,
\* newest first
SortedList(n) == [ i \in 1..n |-> n + 1 - i ]

\* the characters of a ?page= parameter
ParamChars == {"0", "1", "3", "-", " ", "x"}

Digits == {"0", "1", "2", "3", "4", "5", "6", "7", "8", "9"}

DigitValue(c) ==
    CASE c = "0" -> 0 [] c = "1" -> 1 [] c = "2" -> 2 [] c = "3" -> 3 [] c = "4" -> 4
      [] c = "5" -> 5 [] c = "6" -> 6 [] c = "7" -> 7 [] c = "8" -> 8 [] c = "9" -> 9

\* request.GET.get('page'): absent, or a text
PageParams ==
    { [ kind |-> "absent", text |-> << >> ] }
    \cup { [ kind |-> "text", text |-> t ] :
             t \in UNION { [1..k -> ParamChars] : k \in 0..MaxParamLen } }

RECURSIVE StripLeft(_)
StripLeft(t) == IF t # << >> /\ Head(t) = " " THEN StripLeft(Tail(t)) ELSE t

RECURSIVE StripRight(_)
StripRight(t) ==
    IF t # << >> /\ t[Len(t)] = " " THEN StripRight(SubSeq(t, 1, Len(t) - 1)) ELSE t

RECURSIVE DigitsValue(_, _)
DigitsValue(t, acc) ==
    IF t = << >> THEN acc ELSE DigitsValue(Tail(t), 10 * acc + DigitValue(Head(t)))

\* int(text): blanks around are dropped, a sign may lead, digits must follow
ParseInt(t) ==
    LET u == StripRight(StripLeft(t))
        signed == u # << >> /\ Head(u) \in {"-", "+"}
        d == IF signed THEN Tail(u) ELSE u
    IN  IF d # << >> /\ \A k \in 1..Len(d) : d[k] \in Digits
        THEN [ ok |-> TRUE,
               value |-> IF signed /\ Head(u) = "-"
                         THEN 0 - DigitsValue(d, 0) ELSE DigitsValue(d, 0) ]
        ELSE [ ok |-> FALSE, value |-> 0 ]

\* Paginator.num_pages: an empty list still has its page 1
NumPages(n) == IF n = 0 THEN 1 ELSE (n + PerPage - 1) \div PerPage

\* Paginator.validate_number: the page number, or the exception raised
ValidateNumber(n, param) ==
    LET parsed == IF param.kind = "absent" THEN [ ok |-> FALSE, value |-> 0 ]
                  ELSE ParseInt(param.text)
    IN  IF ~parsed.ok THEN [ raised |-> "PageNotAnInteger", number |-> 0 ]
        ELSE IF parsed.value < 1 THEN [ raised |-> "EmptyPage", number |-> 0 ]
        ELSE IF parsed.value > NumPages(n) THEN [ raised |-> "EmptyPage", number |-> 0 ]
        ELSE [ raised |-> "none", number |-> parsed.value ]

\* Paginator.page(number): the slice of the list the page holds
PageOf(n, number) ==
    LET bottom == (number - 1) * PerPage
        top == IF bottom + PerPage >= n THEN n ELSE bottom + PerPage
    IN  [ raised |-> "none", number |-> number,
          items |-> SubSeq(SortedList(n), bottom + 1, top) ]

\* a faulty variant: a page out of range is answered with page 1
get_page_FirstOnEmpty(n, param) ==
    LET v == ValidateNumber(n, param)
    IN  IF v.raised = "none" THEN PageOf(n, v.number) ELSE PageOf(n, 1)

\* Paginator.get_page: page 1 for what is no integer, the last page for a number
\* out of range
get_page(n, param) ==
    LET v == ValidateNumber(n, param)
    IN  IF v.raised = "PageNotAnInteger" THEN PageOf(n, 1)
        ELSE IF v.raised = "EmptyPage" THEN PageOf(n, NumPages(n))
        ELSE PageOf(n, v.number)

\* lines 105-110 and 187-192: the handler's try/except around get_page
PageObj(n, param) ==
    LET first == get_page(n, param)
    IN  IF first.raised = "EmptyPage" THEN PageOf(n, NumPages(n))
        ELSE IF first.raised # "none" THEN PageOf(n, 1)
        ELSE first

\* lines 98-123
Home ==
    /\ pg.handler = "none"
    /\ pg' = [ pg EXCEPT !.handler = "home", !.page = PageObj(pg.count, pg.param) ]
    /\ UNCHANGED << tracker, downloadLog, now, call, resp, hist, atOne, dlCalls, dlFound,
                    pc, req, loc, pl >>

\* lines 181-199
CategoryDetail ==
    /\ pg.handler = "none"
    /\ pg' = [ pg EXCEPT !.handler = "category_detail",
                         !.page = PageObj(pg.count, pg.param) ]
    /\ UNCHANGED << tracker, downloadLog, now, call, resp, hist, atOne, dlCalls, dlFound,
                    pc, req, loc, pl >>

NoPage == [ raised |-> "none", number |-> 0, items |-> << >> ]

\* a listing request, before its handler has run
InitPage ==
    /\ tracker = << >>
    /\ downloadLog = << >>
    /\ now = 0
    /\ call = Request("none", NoBody)
    /\ resp = NoResponse
    /\ hist = [ d \in DeviceIds |-> << >> ]
    /\ atOne = [ d \in DeviceIds |-> 0 ]
    /\ dlCalls = 0
    /\ dlFound = 0
    /\ pc = << >>
    /\ req = << >>
    /\ loc = << >>
    /\ pl = << >>
    /\ \E n \in 0..MaxItems, p \in PageParams :
          pg = [ handler |-> "none", count |-> n, param |-> p, page |-> NoPage ]

NextPage == Home \/ CategoryDetail

SpecPage == InitPage /\ [][NextPage]_vars

----------------------------------------------------------------------------
(* The title-order helpers and playlist_detail *)

\* the default of both helpers: a title without a number sorts last
Unsorted == 9999

\* movies[:5]: the movies playlist_detail inspects
FirstLook == 5

\* titles are sequences of characters
Titles ==
    { << "2", ".", " ", "b" >>,
      << "1", "0", ".", " ", "a" >>,
      << "S", "e", "a", "s", "o", "n", " ", "1", " ", "7" >>,
      << "s", "2", "e", "1" >>,
      << "x" >> }

UpperCase == << "A", "B", "C", "D", "E", "F", "G", "H", "I", "J", "K", "L", "M",
                "N", "O", "P", "Q", "R", "S", "T", "U", "V", "W", "X", "Y", "Z" >>

LowerCase == << "a", "b", "c", "d", "e", "f", "g", "h", "i", "j", "k", "l", "m",
                "n", "o", "p", "q", "r", "s", "t", "u", "v", "w", "x", "y", "z" >>

\* str.lower()
Lower(t) ==
    [ k \in 1..Len(t) |->
        IF \E u \in 1..26 : UpperCase[u] = t[k]
        THEN LowerCase[CHOOSE u \in 1..26 : UpperCase[u] = t[k]]
        ELSE t[k] ]

\* \w of a regular expression
IsWordChar(c) ==
    \/ c \in Digits
    \/ c = "_"
    \/ \E u \in 1..26 : c = UpperCase[u] \/ c = LowerCase[u]

\* whether t holds the text w from place i on
StartsAt(t, i, w) ==
    /\ i + Len(w) - 1 <= Len(t)
    /\ \A k \in 1..Len(w) : t[i + k - 1] = w[k]

\* the first place from i on that holds no blank (\s*)
RECURSIVE SkipBlanks(_, _)
SkipBlanks(t, i) == IF i <= Len(t) /\ t[i] = " " THEN SkipBlanks(t, i + 1) ELSE i

\* the first place from i on that holds no digit (\d+, greedy)
RECURSIVE SkipDigits(_, _)
SkipDigits(t, i) == IF i <= Len(t) /\ t[i] \in Digits THEN SkipDigits(t, i + 1) ELSE i

\* \s*(\d+) from place i: the number and the place after it
NumberAt(t, i) ==
    LET a == SkipBlanks(t, i)
        b == SkipDigits(t, a)
    IN  [ found |-> b > a, from |-> a, to |-> b ]

\* letter(?:rest)?\s*(\d+) tried at place i: with the optional part first, and
\* without it when that fails
MarkerAt(t, i, letter, rest) ==
    IF ~(i <= Len(t) /\ t[i] = letter) THEN [ found |-> FALSE, from |-> 0, to |-> 0 ]
    ELSE LET long == IF StartsAt(t, i + 1, rest)
                     THEN NumberAt(t, i + 1 + Len(rest))
                     ELSE [ found |-> FALSE, from |-> 0, to |-> 0 ]
         IN  IF long.found THEN long ELSE NumberAt(t, i + 1)

\* re.search of letter(?:rest)?\s*(\d+): the leftmost match, its extent
\* (start..stop-1) and the value of its group
SearchMarker(t, letter, rest) ==
    LET hits == { i \in 1..Len(t) : MarkerAt(t, i, letter, rest).found }
    IN  IF hits = {} THEN [ found |-> FALSE, start |-> 0, stop |-> 0, value |-> 0 ]
        ELSE LET i == CHOOSE h \in hits : \A g \in hits : h <= g
                 m == MarkerAt(t, i, letter, rest)
             IN  [ found |-> TRUE, start |-> i, stop |-> m.to,
                   value |-> DigitsValue(SubSeq(t, m.from, m.to - 1), 0) ]

\* str.replace(old, ''): every occurrence, left to right
RECURSIVE Remove(_, _)
Remove(t, old) ==
    IF t = << >> THEN << >>
    ELSE IF StartsAt(t, 1, old) THEN Remove(SubSeq(t, Len(old) + 1, Len(t)), old)
    ELSE << Head(t) >> \o Remove(Tail(t), old)

\* re.search(r"\b(\d+)\b"): the leftmost run of digits with no word character
\* on either side
SearchStandalone(t) ==
    LET hits == { i \in 1..Len(t) :
                    /\ t[i] \in Digits
                    /\ (i = 1 \/ ~IsWordChar(t[i - 1]))
                    /\ LET j == SkipDigits(t, i)
                       IN  j > Len(t) \/ ~IsWordChar(t[j]) }
    IN  IF hits = {} THEN [ found |-> FALSE, value |-> 0 ]
        ELSE LET i == CHOOSE h \in hits : \A g \in hits : h <= g
             IN  [ found |-> TRUE,
                   value |-> DigitsValue(SubSeq(t, i, SkipDigits(t, i) - 1), 0) ]

\* lines 18-56
extract_episode_number(title) ==
    LET t == Lower(title)
        season_match == SearchMarker(t, "s", << "e", "a", "s", "o", "n" >>)
        season_num == IF season_match.found THEN season_match.value ELSE 1
        episode_match == SearchMarker(t, "e", << "p", "i", "s", "o", "d", "e" >>)
        explicit == IF episode_match.found THEN episode_match.value ELSE Unsorted
        episode_num ==
            IF explicit = Unsorted /\ season_match.found
            THEN LET cleaned == Remove(t, SubSeq(t, season_match.start,
                                                   season_match.stop - 1))
                     simple == SearchStandalone(cleaned)
                 IN  IF simple.found THEN simple.value ELSE explicit
            ELSE explicit
    IN  << season_num, episode_num >>

\* lines 62-74
extract_movie_order_number(title) ==
    LET t == StripRight(StripLeft(title))
        j == SkipDigits(t, 1)
    IN  IF j > 1 /\ j <= Len(t) /\ t[j] = "."
        THEN DigitsValue(SubSeq(t, 1, j - 1), 0)
        ELSE Unsorted

\* the order of Python's int and tuple keys
IntLess(a, b) == a < b

PairLess(a, b) == a[1] < b[1] \/ (a[1] = b[1] /\ a[2] < b[2])

\* the order of the keys of one sort: pairs (tuples), or integers
KeyLess(a, b, pairs) == IF pairs THEN PairLess(a, b) ELSE IntLess(a, b)

\* list.sort(key=...): a stable sort; the result lists the places of the
\* movies in the fetched list
StableSort(keys, pairs) ==
    LET RECURSIVE Insert(_, _)
        Insert(sorted, i) ==
            IF sorted = << >> THEN << i >>
            ELSE IF KeyLess(keys[i], keys[Head(sorted)], pairs) THEN << i >> \o sorted
            ELSE << Head(sorted) >> \o Insert(Tail(sorted), i)
        RECURSIVE Run(_, _)
        Run(sorted, i) == IF i > Len(keys) THEN sorted ELSE Run(Insert(sorted, i), i + 1)
    IN  Run(<< >>, 1)

\* a faulty variant: every movie of the playlist is inspected
has_numeric_order_AnyMovie(movies) ==
    \E k \in 1..Len(movies) : extract_movie_order_number(movies[k]) # Unsorted

\* lines 134-138
has_numeric_order(movies) ==
    \E k \in 1..Len(movies) :
        k <= FirstLook /\ extract_movie_order_number(movies[k]) # Unsorted

\* lines 132-145: the movies in the order the page shows them
playlist_detail(movies) ==
    IF has_numeric_order(movies)
    THEN StableSort([ k \in 1..Len(movies) |-> extract_movie_order_number(movies[k]) ],
                    FALSE)
    ELSE StableSort([ k \in 1..Len(movies) |-> extract_episode_number(movies[k]) ],
                    TRUE)

\* lines 126-145; get_object_or_404 answers 404 for a playlist that is not there
PlaylistDetail(exists) ==
    /\ pl.status = 0
    /\ pl' = IF exists
             THEN [ pl EXCEPT !.status = 200, !.shown = playlist_detail(pl.movies) ]
             ELSE [ pl EXCEPT !.status = 404 ]
    /\ UNCHANGED << tracker, downloadLog, now, call, resp, hist, atOne, dlCalls, dlFound,
                    pc, req, loc, pg >>

\* a playlist with its movies as the query fetches them, not yet shown
InitPlaylist ==
    /\ tracker = << >>
    /\ downloadLog = << >>
    /\ now = 0
    /\ call = Request("none", NoBody)
    /\ resp = NoResponse
    /\ hist = [ d \in DeviceIds |-> << >> ]
    /\ atOne = [ d \in DeviceIds |-> 0 ]
    /\ dlCalls = 0
    /\ dlFound = 0
    /\ pc = << >>
    /\ req = << >>
    /\ loc = << >>
    /\ pg = << >>
    /\ \E ms \in UNION { [1..k -> Titles] : k \in 0..MaxMovies } :
          pl = [ movies |-> ms, status |-> 0, shown |-> << >> ]

NextPlaylist == \E exists \in BOOLEAN : PlaylistDetail(exists)

SpecPlaylist == InitPlaylist /\ [][NextPlaylist]_vars

----------------------------------------------------------------------------
(* Properties of track_install and track_uninstall, one request at a time *)

IsTrackCall(c) == c.handler \in {"track_install", "track_uninstall"}

\* the device a tracking request names, once past the device_id test
Targets(c, d) == IsTrackCall(c) /\ ReachesTable(c.body) /\ c.body.device_id = d

\* C1: from no row, track_install, track_uninstall, track_install for one
\* device_id ends with install_count = 1 and deleted_count = 1; and after any
\* sequence of tracking calls the device's deleted_count is the number of
\* track_uninstall calls that arrived while its install_count was 1.
C1_DeletedCountsUninstalls ==
    \A d \in DeviceIds :
        /\ hist[d] = << "install", "uninstall", "install" >>
              => /\ HasRow(tracker, d)
                 /\ RowOf(tracker, d).install_count = 1
                 /\ RowOf(tracker, d).deleted_count = 1
        /\ HasRow(tracker, d) => RowOf(tracker, d).deleted_count = atOne[d]
        /\ ~HasRow(tracker, d) => atOne[d] = 0

C1_Witness ==
    \E d \in DeviceIds :
        /\ hist[d] = << "install", "uninstall", "install" >>
        /\ atOne[d] = 1

\* C2: at most one row per device_id, install_count is 0 or 1 in every saved
\* row, and no row's deleted_count decreases from one state to the next.
C2_StateInv ==
    /\ \A d \in DeviceIds : Cardinality(RowsOf(tracker, d)) <= 1
    /\ \A i \in 1..Len(tracker) : tracker[i].install_count \in {0, 1}

C2_Step ==
    /\ Len(tracker') >= Len(tracker)
    /\ \A i \in 1..Len(tracker) :
          /\ tracker'[i].device_id = tracker[i].device_id
          /\ tracker'[i].deleted_count >= tracker[i].deleted_count

C2_UniqueToggleMonotone == [](C2_StateInv) /\ [][C2_Step]_vars

C2_Witness ==
    /\ Len(tracker) = 2
    /\ \E i \in 1..Len(tracker) : tracker[i].install_count = 0 /\ tracker[i].deleted_count = 2

\* the rows other than row i are what they were, and no row was added
OthersUnchanged(i) ==
    /\ Len(tracker') = Len(tracker)
    /\ \A j \in 1..Len(tracker) : j # i => tracker'[j] = tracker[j]

\* a track_install step for a device whose row has install_count = 1
ReopenStep(d) ==
    /\ call'.handler = "track_install"
    /\ Targets(call', d)
    /\ HasRow(tracker, d)
    /\ RowOf(tracker, d).install_count = 1

\* C3 as stated: a track_install for a device whose row has install_count = 1
\* creates no row and leaves install_count, deleted_count, device_name and
\* device_info of that row, and every other row, unchanged.
C3_ReopenKeepsDeviceName ==
    [][ \A d \in DeviceIds :
           ReopenStep(d) =>
              LET i == CHOOSE k \in RowsOf(tracker, d) : TRUE
              IN  /\ OthersUnchanged(i)
                  /\ tracker'[i].install_count = tracker[i].install_count
                  /\ tracker'[i].deleted_count = tracker[i].deleted_count
                  /\ tracker'[i].device_name = tracker[i].device_name
                  /\ tracker'[i].device_info = tracker[i].device_info ]_vars

\* C3 as amended: such a call creates no row and leaves install_count,
\* deleted_count and device_info of that row, its device_id, and every other
\* row unchanged; it sets last_action and the timestamp, and it overwrites
\* device_name with the device name resolved from the request.
C3_ReopenFrame ==
    [][ \A d \in DeviceIds :
           ReopenStep(d) =>
              LET i == CHOOSE k \in RowsOf(tracker, d) : TRUE
              IN  /\ OthersUnchanged(i)
                  /\ tracker'[i] =
                        [ tracker[i] EXCEPT !.last_action = "install (re-open)",
                                            !.updated_at = now',
                                            !.device_name = resp'.body.device ] ]_vars

\* a repeated install that changed the stored device name
C3_Witness ==
    /\ call.handler = "track_install"
    /\ resp.code = 200
    /\ resp.body.message = "Already tracked (count maintained)"
    /\ RowOf(tracker, call.body.device_id).device_name = "Pixel"
    /\ RowOf(tracker, call.body.device_id).device_info = {"mac", "iphone"}
    /\ RowOf(tracker, call.body.device_id).deleted_count = 1

\* a track_uninstall step
UninstallStep == call'.handler = "track_uninstall"

\* C4: a track_uninstall for a device with no row, or whose row has
\* install_count = 0, answers success and leaves the table unchanged; only
\* a call that finds install_count = 1 changes the table, setting
\* install_count to 0 and adding exactly 1 to deleted_count.
C4_UninstallFrame ==
    [][ UninstallStep =>
          /\ \A d \in DeviceIds :
                Targets(call', d) =>
                   IF HasRow(tracker, d) /\ RowOf(tracker, d).install_count = 1
                   THEN LET i == CHOOSE k \in RowsOf(tracker, d) : TRUE
                        IN  /\ OthersUnchanged(i)
                            /\ tracker'[i].install_count = 0
                            /\ tracker'[i].deleted_count = tracker[i].deleted_count + 1
                            /\ tracker'[i].device_id = d
                   ELSE /\ tracker' = tracker
                        /\ resp'.code = 200
                        /\ resp'.body.success = TRUE
          /\ tracker' # tracker =>
                \E d \in DeviceIds :
                   /\ Targets(call', d)
                   /\ HasRow(tracker, d)
                   /\ RowOf(tracker, d).install_count = 1 ]_vars

\* an uninstall that found install_count = 0, after one that counted
C4_Witness ==
    /\ call.handler = "track_uninstall"
    /\ resp.code = 200
    /\ \E d \in DeviceIds :
          /\ Targets(call, d)
          /\ Len(hist[d]) >= 3
          /\ hist[d][Len(hist[d])] = "uninstall"
          /\ hist[d][Len(hist[d]) - 1] = "uninstall"
          /\ RowOf(tracker, d).deleted_count = 1

\* a success response of one of the two tracking handlers
IsTrackSuccess(r) ==
    \/ r.handler = "track_install" /\ r.code = 200 /\ r.body.status = "success"
    \/ r.handler = "track_uninstall" /\ r.code = 200 /\ r.body.success = TRUE

\* C5: every success response of track_install and of track_uninstall reports
\* total_active_installs, the number of rows with install_count = 1 in the
\* state the call leaves.
C5_SuccessReportsActiveCount ==
    IsTrackSuccess(resp) =>
        /\ "total_active_installs" \in DOMAIN resp.body
        /\ resp.body.total_active_installs = ActiveCount(tracker)

\* a tracking request that is malformed JSON or whose JSON has no device_id
LacksDeviceId(body) ==
    \/ body.kind = "malformed"
    \/ body.kind = "nonobject"
    \/ body.kind = "object" /\ Falsy(body.device_id)

\* C8: a tracking request whose body is malformed JSON, or whose JSON lacks
\* device_id, gets a 400 response and leaves the InstallTracker table
\* unchanged; no row is created or modified on any error outcome.
C8_BadRequestIs400 ==
    [][ IsTrackCall(call') =>
          /\ LacksDeviceId(call'.body) => resp'.code = 400 /\ tracker' = tracker
          /\ resp'.code # 200 => tracker' = tracker ]_vars

----------------------------------------------------------------------------
(* Properties of download_movie, among all the handlers *)

\* C6 as stated: every download_movie call creates exactly one DownloadLog
\* row, so the table has as many rows as download_movie calls were made.
C6_OneLogPerCall == Len(downloadLog) = dlCalls

\* no handler modifies or removes a DownloadLog row
LogAppendOnly ==
    /\ Len(downloadLog') >= Len(downloadLog)
    /\ SubSeq(downloadLog', 1, Len(downloadLog)) = downloadLog

\* what a download_movie step does for the movie id it is called with
DownloadStep(m) ==
    IF MovieExists(m)
    THEN /\ Len(downloadLog') = Len(downloadLog) + 1
         /\ downloadLog'[Len(downloadLog')].movie_title = Movie[m].title
         /\ downloadLog'[Len(downloadLog')].download_time = now'
         /\ resp'.code = 302
         /\ resp'.body.location = Movie[m].download_link
    ELSE /\ downloadLog' = downloadLog
         /\ resp'.code = 404

\* C6 as amended: a download_movie call for a movie that exists creates exactly
\* one DownloadLog row, carrying the movie's title, and redirects to the
\* movie's stored download_link; a call for an unknown movie id is answered
\* 404 and creates no row; no handler modifies or removes an existing row; so
\* the table has as many rows as download_movie calls found their movie.
C6_OneLogPerFoundMovie ==
    /\ [](Len(downloadLog) = dlFound)
    /\ [][ /\ LogAppendOnly
           /\ call'.handler = "download_movie" => DownloadStep(call'.body.movie_id)
           /\ call'.handler # "download_movie" => downloadLog' = downloadLog ]_vars

\* a download that was logged, after one that was answered 404
C6_Witness ==
    /\ call.handler = "download_movie"
    /\ resp.code = 302
    /\ dlCalls = 2
    /\ Len(downloadLog) = 1

----------------------------------------------------------------------------
(* Properties of the paging of home and category_detail *)

\* the texts that denote an integer: blanks, an optional sign, digits, blanks
IsIntegerText(t) ==
    \E a \in 1..Len(t), b \in 1..Len(t) :
        /\ a <= b
        /\ \A k \in 1..Len(t) : (k < a \/ k > b) => t[k] = " "
        /\ \/ \A k \in a..b : t[k] \in Digits
           \/ a < b /\ t[a] \in {"-", "+"} /\ \A k \in (a + 1)..b : t[k] \in Digits

\* the integer such a text denotes
RECURSIVE Pow10(_)
Pow10(k) == IF k = 0 THEN 1 ELSE 10 * Pow10(k - 1)

IntegerOf(t) ==
    LET ds == { k \in 1..Len(t) : t[k] \in Digits }
        top == CHOOSE k \in ds : \A j \in ds : j <= k
        RECURSIVE Sum(_)
        Sum(S) == IF S = {} THEN 0
                  ELSE LET k == CHOOSE x \in S : TRUE
                       IN  DigitValue(t[k]) * Pow10(top - k) + Sum(S \ {k})
    IN  IF \E k \in 1..Len(t) : t[k] = "-" THEN 0 - Sum(ds) ELSE Sum(ds)

\* the number of pages of n items, 24 to a page: the least count that holds them
LastPage(n) == CHOOSE k \in 1..(n + 1) : k * PerPage >= n /\ (k = 1 \/ (k - 1) * PerPage < n)

\* items lo..hi of the sorted list
Consecutive(items, n, lo) ==
    \A k \in 1..Len(items) : items[k] = SortedList(n)[lo + k - 1]

\* C7: home and category_detail return a page and never an error: a numeric
\* page out of range yields the items of the last page, a non-numeric or absent
\* page parameter yields page 1, a numeric page in range yields that page, and
\* every page holds at most 24 consecutive items of the sorted list.
C7_PageClamped ==
    pg.handler \in {"home", "category_detail"} =>
        LET n == pg.count
            page == pg.page
            numeric == pg.param.kind = "text" /\ IsIntegerText(pg.param.text)
            lo == (page.number - 1) * PerPage + 1
        IN  /\ page.raised = "none"
            /\ page.number \in 1..LastPage(n)
            /\ ~numeric => page.number = 1
            /\ numeric =>
                  LET v == IntegerOf(pg.param.text)
                  IN  page.number = IF v \in 1..LastPage(n) THEN v ELSE LastPage(n)
            /\ Len(page.items) <= PerPage
            /\ Len(page.items) = IF page.number < LastPage(n) THEN PerPage ELSE n - lo + 1
            /\ Consecutive(page.items, n, lo)

\* page 33 of 50 items: the third and last page, with the two oldest items
C7_Witness ==
    /\ pg.handler = "home"
    /\ pg.count = 50
    /\ pg.param.text = << "3", "3" >>
    /\ pg.page.number = 3
    /\ pg.page.items = << 2, 1 >>

----------------------------------------------------------------------------
(* Properties of playlist_detail *)

\* the keys of the titles: the leading order number and the (season, episode) pair
LeadingNumber == [ t \in Titles |-> extract_movie_order_number(t) ]

SeasonEpisode == [ t \in Titles |-> extract_episode_number(t) ]

\* C10: playlist_detail shows a permutation of the playlist's movies; when one
\* of the first five fetched has a leading order number other than 9999 the
\* whole list ascends by leading order number, otherwise (whatever a later
\* movie's title) it ascends by the (season, episode) pair; movies with equal
\* keys keep their fetched order.
C10_PlaylistOrder ==
    pl.status = 200 =>
        LET n == Len(pl.movies)
            shown == pl.shown
            numbered == \E k \in 1..n : k <= 5 /\ LeadingNumber[pl.movies[k]] # 9999
        IN  /\ Len(shown) = n
            /\ \A i \in 1..n : \E k \in 1..n : shown[k] = i
            /\ \A a \in 1..n, b \in 1..n :
                  a < b =>
                     LET x == IF numbered THEN << LeadingNumber[pl.movies[shown[a]]], 0 >>
                              ELSE SeasonEpisode[pl.movies[shown[a]]]
                         y == IF numbered THEN << LeadingNumber[pl.movies[shown[b]]], 0 >>
                              ELSE SeasonEpisode[pl.movies[shown[b]]]
                     IN  \/ x[1] < y[1]
                         \/ x[1] = y[1] /\ x[2] < y[2]
                         \/ x = y /\ shown[a] < shown[b]

\* five movies without a leading number, then "2. b": shown by season and episode
C10_Witness ==
    /\ pl.status = 200
    /\ pl.movies = << << "x" >>, << "s", "2", "e", "1" >>,
                      << "S", "e", "a", "s", "o", "n", " ", "1", " ", "7" >>,
                      << "x" >>, << "x" >>, << "2", ".", " ", "b" >> >>
    /\ pl.shown = << 3, 1, 4, 5, 6, 2 >>

----------------------------------------------------------------------------
(* Properties of the interleaved tracking handlers *)

\* the counters of a row
Counts(row) == << row.install_count, row.deleted_count >>

\* worker s is about to save a track_install that read the row with
\* install_count = 1, and meanwhile a track_uninstall that read the same
\* counters has saved
StaleInstallSave(s) ==
    /\ pc[s] = "got"
    /\ pc'[s] = "saved"
    /\ req[s].handler = "track_install"
    /\ ~loc[s].created
    /\ loc[s].row.install_count = 1
    /\ Counts(tracker[loc[s].idx]) = Counts(UninstallUpdate(loc[s].row, now))
    /\ tracker[loc[s].idx].last_action = "uninstall"

\* the counters the two calls leave when one runs after the other, from the
\* row both read
SerialCounts(row) ==
    { Counts(UninstallUpdate(InstallUpdate(row, FALSE, "", {}, 0), 0)),
      Counts(InstallUpdate(UninstallUpdate(row, 0), FALSE, "", {}, 0)) }

\* C9: when a track_install and a track_uninstall for one device_id interleave
\* their read and save steps, the install's save overwrites the uninstall's
\* write: deleted_count goes back from n+1 to n, install_count returns to 1
\* with no re-install recorded, and the row matches no serial order of the two.
C9_LostUpdate ==
    [][ \A s \in Slots :
           StaleInstallSave(s) =>
              LET i == loc[s].idx
                  n == loc[s].row.deleted_count
              IN  /\ tracker[i].deleted_count = n + 1
                  /\ tracker'[i].deleted_count = n
                  /\ tracker'[i].install_count = 1
                  /\ tracker'[i].last_action = "install (re-open)"
                  /\ Counts(tracker'[i]) \notin SerialCounts(loc[s].row) ]_vars

\* an install was saved, then a second install and an uninstall read that row
\* and both saved: both requests are over, and the row of the installed device
\* counts no uninstall though one was saved
C9_Witness ==
    /\ \A s \in Slots : pc[s] = "idle"
    /\ \E d \in DeviceIds :
          /\ hist[d] = << "install", "install", "uninstall" >>
          /\ atOne[d] = 1
          /\ RowOf(tracker, d).install_count = 1
          /\ RowOf(tracker, d).deleted_count = 0
          /\ RowOf(tracker, d).last_action = "install (re-open)"
          /\ RowOf(tracker, d).device_info = {"mac", "iphone"}

====
